---- MODULE Spec2Model ----
(***************************************************************************)
(* Model of agent.py, the MockAI LocalFAQ assistant: parse_faq,            *)
(* best_match, polish_answer and the interactive loop of __main__.         *)
(*                                                                         *)
(* A Python str is the sequence of its characters.  None is the           *)
(* value None, a one-element sequence that no str can equal.  A dict is    *)
(* the sequence of its <<key, value>> items in insertion order.            *)
(* fuzz.token_set_ratio and colorama are third-party libraries: the score  *)
(* of a candidate is an input of the loop step, the colour codes are left  *)
(* out of the printed text.                                                *)
(***************************************************************************)
EXTENDS Integers, Sequences, FiniteSets, TLC

VARIABLES md_text, qas, docs, all_qas, questions, pc, rawline, question,
          scores, best_q, reply, nread, nreplies

vars == <<md_text, qas, docs, all_qas, questions, pc, rawline, question,
          scores, best_q, reply, nread, nreplies>>

(* ---------------- bounds ---------------- *)
MaxLines == 3
MaxDocs == 2
MaxQueries == 2
MaxQuestions == 3

(* ---------------- Python values ---------------- *)
None == <<"None">>

\* the character U+0060, which a TLA+ string cannot hold
Backtick == "U+0060"

\* bool(x) for x a str or None
Truthy(x) == x # None /\ x # <<>>

Whitespace == {" ", "\t", "\n", "\r"}

RECURSIVE LStrip(_)
LStrip(s) ==
    IF s = <<>> THEN s
    ELSE IF Head(s) \in Whitespace THEN LStrip(Tail(s)) ELSE s

RECURSIVE RStrip(_)
RStrip(s) ==
    IF s = <<>> THEN s
    ELSE IF s[Len(s)] \in Whitespace THEN RStrip(SubSeq(s, 1, Len(s) - 1)) ELSE s

\* str.strip()
Strip(s) == RStrip(LStrip(s))

\* str.startswith(p)
StartsWith(s, p) == Len(s) >= Len(p) /\ SubSeq(s, 1, Len(p)) = p

\* str.replace(old, new): every non-overlapping occurrence, left to right
RECURSIVE Replace(_, _, _)
Replace(s, old, new) ==
    IF s = <<>> THEN <<>>
    ELSE IF StartsWith(s, old)
         THEN new \o Replace(SubSeq(s, Len(old) + 1, Len(s)), old, new)
         ELSE <<Head(s)>> \o Replace(Tail(s), old, new)

\* sep.join(parts)
RECURSIVE Join(_, _)
Join(sep, parts) ==
    IF parts = <<>> THEN <<>>
    ELSE IF Len(parts) = 1 THEN parts[1]
    ELSE parts[1] \o sep \o Join(sep, Tail(parts))

\* str.split(c) for a one-character separator: never empty, keeps empty fields
RECURSIVE SplitOn(_, _, _)
SplitOn(s, c, cur) ==
    IF s = <<>> THEN <<cur>>
    ELSE IF Head(s) = c THEN <<cur>> \o SplitOn(Tail(s), c, <<>>)
    ELSE SplitOn(Tail(s), c, Append(cur, Head(s)))

Split(s, c) == SplitOn(s, c, <<>>)

\* len(str.split()): the number of maximal runs of non-whitespace
RECURSIVE CountTokens(_, _)
CountTokens(s, inTok) ==
    IF s = <<>> THEN 0
    ELSE IF Head(s) \in Whitespace THEN CountTokens(Tail(s), FALSE)
    ELSE (IF inTok THEN 0 ELSE 1) + CountTokens(Tail(s), TRUE)

TokenCount(s) == CountTokens(s, FALSE)

UpperCase == <<"A","B","C","D","E","F","G","H","I","J","K","L","M",
               "N","O","P","Q","R","S","T","U","V","W","X","Y","Z">>
LowerCase == <<"a","b","c","d","e","f","g","h","i","j","k","l","m",
               "n","o","p","q","r","s","t","u","v","w","x","y","z">>

LowerChar(c) ==
    IF \E i \in 1..26 : UpperCase[i] = c
    THEN LowerCase[CHOOSE i \in 1..26 : UpperCase[i] = c]
    ELSE c

\* str.lower()
Lower(s) == [i \in 1..Len(s) |-> LowerChar(s[i])]

(* ---------------- dict ---------------- *)
DictKeys(d) == [i \in 1..Len(d) |-> d[i][1]]

DictHas(d, k) == \E i \in 1..Len(d) : d[i][1] = k

\* d.get(k)
DictGet(d, k) ==
    IF DictHas(d, k) THEN d[CHOOSE i \in 1..Len(d) : d[i][1] = k][2] ELSE None

\* d[k] = v: an existing key keeps its position, a new key goes last
DictSet(d, k, v) ==
    IF DictHas(d, k)
    THEN [i \in 1..Len(d) |-> IF d[i][1] = k THEN <<k, v>> ELSE d[i]]
    ELSE Append(d, <<k, v>>)

\* fault variant of DictUpdate: keys already present keep their value
RECURSIVE DictUpdateKeepFirst(_, _)
DictUpdateKeepFirst(d, other) ==
    IF other = <<>> THEN d
    ELSE DictUpdateKeepFirst(
            IF DictHas(d, other[1][1]) THEN d
            ELSE DictSet(d, other[1][1], other[1][2]),
            Tail(other))

\* d.update(other)
RECURSIVE DictUpdate(_, _)
DictUpdate(d, other) ==
    IF other = <<>> THEN d
    ELSE DictUpdate(DictSet(d, other[1][1], other[1][2]), Tail(other))

(* ---------------- parse_faq ---------------- *)
Marker == <<"#", "#", " ">>
NL == <<"\n">>

IsMarkerLine(line) == StartsWith(line, Marker)

\* the question text parse_faq assigns to current_q for a marker line
QuestionText(line) == Strip(Replace(line, Marker, <<>>))

\* fault variant of QuestionOpen: "current_q is not None"
QuestionOpenNotNone(current_q) == current_q # None

\* "if current_q:"
QuestionOpen(current_q) == Truthy(current_q)

FinalizeAnswer(current_a) == Strip(Join(NL, current_a))

ParseStart == [qas |-> <<>>, current_q |-> None, current_a |-> <<>>]

\* one iteration of "for line in lines"
ParseLine(st, line) ==
    IF IsMarkerLine(line)
    THEN [qas |-> IF QuestionOpen(st.current_q)
                  THEN DictSet(st.qas, st.current_q, FinalizeAnswer(st.current_a))
                  ELSE st.qas,
          current_q |-> QuestionText(line),
          current_a |-> <<>>]
    ELSE IF QuestionOpen(st.current_q)
         THEN [st EXCEPT !.current_a = Append(@, line)]
         ELSE st

\* the loop state after the first n lines
RECURSIVE ParseScan(_, _)
ParseScan(lines, n) ==
    IF n = 0 THEN ParseStart ELSE ParseLine(ParseScan(lines, n - 1), lines[n])

parse_faq(text) ==
    LET lines == Split(text, "\n")
        st == ParseScan(lines, Len(lines))
    IN  IF QuestionOpen(st.current_q)
        THEN DictSet(st.qas, st.current_q, FinalizeAnswer(st.current_a))
        ELSE st.qas

(* ---------------- input texts of the parser ---------------- *)
ParseLines ==
    { <<"#", "#", " ", "a">>,
      <<"#", "#", " ", "b", " ">>,
      <<"#", "#", " ">>,
      <<"#", "#", " ", "a", "#", "#", " ", "b">>,
      <<"x">>,
      <<" ", "y">>,
      <<>>,
      <<"#", "#", "a">> }

LineSeqs(n) == UNION { [1..k -> ParseLines] : k \in 1..n }

NoReply == [branch |-> "none", question |-> None, text |-> <<>>]

InitParse ==
    /\ md_text \in { Join(NL, ls) : ls \in LineSeqs(MaxLines) }
    /\ qas = <<>>
    /\ docs = <<>> /\ all_qas = <<>> /\ questions = <<>>
    /\ pc = "parse"
    /\ rawline = <<>> /\ question = <<>> /\ scores = <<>>
    /\ best_q = None /\ reply = NoReply
    /\ nread = 0 /\ nreplies = 0

ParseCall ==
    /\ pc = "parse"
    /\ qas' = parse_faq(md_text)
    /\ pc' = "parsed"
    /\ UNCHANGED <<md_text, docs, all_qas, questions, rawline, question,
                   scores, best_q, reply, nread, nreplies>>

NextParse == ParseCall

SpecParse == InitParse /\ [][NextParse]_vars

(* ---------------- best_match ---------------- *)
ShortThreshold == 40
MediumThreshold == 45
LongThreshold == 50
Floor == 35

Max2(a, b) == IF a >= b THEN a ELSE b

\* fault variant of ScoreBeats: a later candidate with an equal score replaces the best
ScoreBeatsOrTies(score, best_score) == score >= best_score

\* "if score > best_score:"
ScoreBeats(score, best_score) == score > best_score

\* the loop "for q in questions" after its first n candidates;
\* sc[i] is fuzz.token_set_ratio(user_question, qs[i])
RECURSIVE BestScan(_, _, _)
BestScan(qs, sc, n) ==
    IF n = 0 THEN [best_q |-> None, best_score |-> 0]
    ELSE LET b == BestScan(qs, sc, n - 1)
         IN  IF ScoreBeats(sc[n], b.best_score)
             THEN [best_q |-> qs[n], best_score |-> sc[n]]
             ELSE b

Threshold(user_question) ==
    LET length == TokenCount(user_question)
        threshold == IF length <= 2 THEN ShortThreshold
                     ELSE IF length <= 4 THEN MediumThreshold
                     ELSE LongThreshold
    IN  Max2(threshold, Floor)

\* fault variant of Accepts: a score equal to the threshold is rejected
AcceptsStrict(best_score, threshold) == best_score > threshold

\* "if best_score >= threshold:"
Accepts(best_score, threshold) == best_score >= threshold

best_match(user_question, qs, sc) ==
    LET b == BestScan(qs, sc, Len(qs))
    IN  IF Accepts(b.best_score, Threshold(user_question)) THEN b.best_q ELSE None

(* ---------------- inputs of the matcher ---------------- *)
\* the values token_set_ratio returns here
ScoreVals == {0, 39, 40, 45, 50}

UserQuestions ==
    { <<>>,
      <<"a">>,
      <<"a"," "," ","b">>,
      <<"a"," ","b"," ","c">>,
      <<"a"," ","b"," ","c"," ","d">>,
      <<"a"," ","b"," ","c"," ","d"," ","e">> }

FaqQuestions == { <<"a">>, <<"b">>, <<"a","b">>, <<"a"," ","b">> }

\* the lists a dict's keys can form: no key twice
QuestionLists(n) ==
    { qs \in UNION { [1..k -> FaqQuestions] : k \in 0..n } :
        \A i, j \in 1..Len(qs) : i # j => qs[i] # qs[j] }

InitMatch ==
    /\ md_text = <<>> /\ qas = <<>> /\ docs = <<>> /\ all_qas = <<>>
    /\ questions \in QuestionLists(MaxQuestions)
    /\ scores \in [1..Len(questions) -> ScoreVals]
    /\ question \in UserQuestions
    /\ pc = "match"
    /\ rawline = <<>>
    /\ best_q = None /\ reply = NoReply
    /\ nread = 0 /\ nreplies = 0

MatchCall ==
    /\ pc = "match"
    /\ best_q' = best_match(question, questions, scores)
    /\ pc' = "matched"
    /\ UNCHANGED <<md_text, qas, docs, all_qas, questions, rawline, question,
                   scores, reply, nread, nreplies>>

NextMatch == MatchCall

SpecMatch == InitMatch /\ [][NextMatch]_vars

(* ---------------- polish_answer ---------------- *)
NoInfoMsg == "I don't have information about that yet."
Preamble == "Here's what I found:\n\n"
ApologyMsg == "Sorry, I couldn't find anything about that."

\* fault variant of polish_answer: the backticks stay
polish_answer_keep_backticks(answer_text) ==
    IF ~Truthy(answer_text) THEN <<NoInfoMsg>>
    ELSE <<Preamble>> \o Strip(answer_text)

\* the printed text: the fixed message, or the preamble and then the cleaned answer
polish_answer(answer_text) ==
    IF ~Truthy(answer_text) THEN <<NoInfoMsg>>
    ELSE <<Preamble>> \o Replace(Strip(answer_text), <<Backtick>>, <<>>)

(* ---------------- __main__ ---------------- *)
\* the contents of the files load_docs returns
DocTexts ==
    { Join(NL, << <<"#","#"," ","a">>, <<"x">> >>),
      Join(NL, << <<"#","#"," ","a">>, <<Backtick,"y",Backtick," ">>, <<>> >>),
      Join(NL, << <<"#","#"," ","b">> >>),
      Join(NL, << <<"p">>, <<"#","#"," ">>, <<"z">>, <<"#","#"," ","b">>, <<"y">> >>),
      Join(NL, << <<"#","#"," ","a","#","#"," ","b">>, <<Backtick>> >>),
      Join(NL, << <<"x">> >>) }

\* the lines input() returns
InputLines ==
    { <<"e","x","i","t">>,
      <<"E","X","I","T">>,
      <<" ","Q","u","I","T"," ">>,
      <<"e","x","i","t"," ","a">>,
      <<>>,
      <<"a"," ","b"," ","c">>,
      <<" ","a"," ","b"," ","c"," ","d"," ","e">> }

\* "for text in docs.values(): all_qas.update(parse_faq(text))"
RECURSIVE MergeAll(_, _)
MergeAll(acc, texts) ==
    IF texts = <<>> THEN acc
    ELSE MergeAll(DictUpdate(acc, parse_faq(texts[1])), Tail(texts))

\* fault variant of IsExitCommand: the comparison is case-sensitive
IsExitCommandCaseSensitive(q) ==
    q \in { <<"e","x","i","t">>, <<"q","u","i","t">> }

\* "question.lower() in ("exit", "quit")"
IsExitCommand(q) ==
    Lower(q) \in { <<"e","x","i","t">>, <<"q","u","i","t">> }

Init ==
    /\ md_text = <<>> /\ qas = <<>>
    /\ docs \in UNION { [1..k -> DocTexts] : k \in 0..MaxDocs }
    /\ all_qas = <<>> /\ questions = <<>>
    /\ pc = "start"
    /\ rawline = <<>> /\ question = <<>> /\ scores = <<>>
    /\ best_q = None /\ reply = NoReply
    /\ nread = 0 /\ nreplies = 0

\* lines 195-202: build the corpus and the questions list
Build ==
    /\ pc = "start"
    /\ all_qas' = MergeAll(<<>>, docs)
    /\ questions' = DictKeys(all_qas')
    /\ pc' = "loop"
    /\ UNCHANGED <<md_text, qas, docs, rawline, question, scores, best_q,
                   reply, nread, nreplies>>

\* fault variant of Query: the matched entry is popped from the corpus
QueryPop(line, sc) ==
    /\ pc = "loop" /\ nread < MaxQueries
    /\ ~IsExitCommand(Strip(line))
    /\ LET bq == best_match(Strip(line), questions, sc)
           answer == DictGet(all_qas, bq)
       IN  /\ best_q' = bq
           /\ reply' = IF Truthy(bq)
                       THEN [branch |-> "matched", question |-> bq,
                             text |-> polish_answer(answer)]
                       ELSE [branch |-> "apology", question |-> None,
                             text |-> <<ApologyMsg>>]
           /\ all_qas' = SelectSeq(all_qas, LAMBDA it : it[1] # bq)
    /\ rawline' = line /\ question' = Strip(line)
    /\ nread' = nread + 1 /\ nreplies' = nreplies + 1
    /\ UNCHANGED <<md_text, qas, docs, questions, scores, pc>>

\* one iteration of "while True" for an input that is not exit/quit
Query(line, sc) ==
    /\ pc = "loop" /\ nread < MaxQueries
    /\ ~IsExitCommand(Strip(line))
    /\ LET bq == best_match(Strip(line), questions, sc)
           answer == DictGet(all_qas, bq)
       IN  /\ best_q' = bq
           /\ reply' = IF Truthy(bq)
                       THEN [branch |-> "matched", question |-> bq,
                             text |-> polish_answer(answer)]
                       ELSE [branch |-> "apology", question |-> None,
                             text |-> <<ApologyMsg>>]
    /\ rawline' = line /\ question' = Strip(line)
    /\ nread' = nread + 1 /\ nreplies' = nreplies + 1
    /\ UNCHANGED <<md_text, qas, docs, all_qas, questions, scores, pc>>

Ask == \E line \in InputLines : \E sc \in [1..Len(questions) -> ScoreVals] :
          Query(line, sc)

\* one iteration of "while True" for exit/quit: print the farewell and break
Quit ==
    \E line \in InputLines :
        /\ pc = "loop" /\ nread <= MaxQueries
        /\ IsExitCommand(Strip(line))
        /\ rawline' = line /\ question' = Strip(line)
        /\ nread' = nread + 1
        /\ pc' = "done"
        /\ UNCHANGED <<md_text, qas, docs, all_qas, questions, scores, best_q,
                       reply, nreplies>>

Next == Build \/ Ask \/ Quit

Spec == Init /\ [][Next]_vars

(* ======================= parse_faq: C1, C2, C3 ======================= *)
TextLines == Split(md_text, "\n")

MarkerIdx == { i \in 1..Len(TextLines) : IsMarkerLine(TextLines[i]) }

\* the marker line with only its leading "## " removed, stripped
PrefixRemoved(line) == Strip(SubSeq(line, Len(Marker) + 1, Len(line)))

\* the question parse_faq holds in current_q once it has read line i
KeyAt(i) == ParseScan(TextLines, i).current_q

DistinctMarkerTexts ==
    \A i, j \in MarkerIdx :
        i # j => PrefixRemoved(TextLines[i]) # PrefixRemoved(TextLines[j])

\* C1: when the marker lines of the text carry pairwise distinct question
\* text, parse_faq returns exactly as many entries as the text has marker
\* lines, a marker line with empty question text included.
C1_EntriesEqualMarkerLines ==
    (pc = "parsed" /\ DistinctMarkerTexts) => Len(qas) = Cardinality(MarkerIdx)

\* C2: the key parse_faq takes for a marker line is the line without its
\* leading "## " only, stripped; a later "## " in the line stays in the key.
C2_KeyIsLineWithoutLeadingPrefix ==
    pc = "parsed" =>
        \A i \in MarkerIdx : KeyAt(i) = PrefixRemoved(TextLines[i])

\* the non-marker lines from marker line i to the next marker line or the end
RECURSIVE Segment(_)
Segment(i) ==
    IF i + 1 > Len(TextLines) \/ IsMarkerLine(TextLines[i + 1]) THEN <<>>
    ELSE <<TextLines[i + 1]>> \o Segment(i + 1)

LastMarkerOfItsKey(i) ==
    \A j \in MarkerIdx : j > i => KeyAt(j) # KeyAt(i)

\* C3: every non-marker line after the first marker line goes to the answer
\* of the most recent marker line's question: for the last marker line of
\* each question the mapping holds the stripped newline-join of the lines up
\* to the next marker line or the end; only lines before the first marker
\* line are dropped.
C3_AnswerIsSegmentOfItsMarker ==
    pc = "parsed" =>
        \A i \in MarkerIdx :
            LastMarkerOfItsKey(i) =>
                /\ DictHas(qas, KeyAt(i))
                /\ DictGet(qas, KeyAt(i)) = Strip(Join(NL, Segment(i)))

(* ======================= best_match: C4, C5 ======================= *)
MaxScore == IF scores = <<>> THEN 0
            ELSE CHOOSE m \in {scores[i] : i \in 1..Len(scores)} :
                    \A i \in 1..Len(scores) : scores[i] <= m

\* the threshold the query's token count selects
ClaimedThreshold ==
    LET n == TokenCount(question)
    IN  Max2(IF n <= 2 THEN 40 ELSE IF n <= 4 THEN 45 ELSE 50, 35)

IndexOf(q) == CHOOSE i \in 1..Len(questions) : questions[i] = q

\* C4: best_match returns a question iff the highest score of the candidates
\* is at least the threshold of the query's token count (40, 45, 50, floor
\* 35); the question returned has that highest score; a highest score equal
\* to the threshold is accepted; an empty list gives None.
C4_MatchIffMaxScoreReachesThreshold ==
    pc = "matched" =>
        /\ (best_q # None) <=> (questions # <<>> /\ MaxScore >= ClaimedThreshold)
        /\ best_q # None =>
              \E i \in 1..Len(questions) :
                  questions[i] = best_q /\ scores[i] = MaxScore
        /\ questions = <<>> => best_q = None

C4_Witness ==
    /\ pc = "matched"
    /\ best_q # None
    /\ TokenCount(question) = 3
    /\ MaxScore = 45
    /\ Len(questions) >= 2

\* C5: when several candidates share the highest score and it passes the
\* threshold, best_match returns the first of them in the list's order.
C5_FirstOfTiedCandidatesWins ==
    (pc = "matched" /\ best_q # None) =>
        \A j \in 1..Len(questions) :
            scores[j] = MaxScore => IndexOf(best_q) <= j

C5_Witness ==
    /\ pc = "matched"
    /\ best_q # None
    /\ Len(questions) = 3
    /\ scores[2] = MaxScore /\ scores[3] = MaxScore /\ scores[1] < MaxScore
    /\ best_q = questions[2]

(* ======================= the corpus: C6 ======================= *)
Parsed(d) == parse_faq(docs[d])

\* the mapping as a set of items: dict equality ignores order
DictItems(d) == {d[i] : i \in 1..Len(d)}

Reversed(seq) == [i \in 1..Len(seq) |-> seq[Len(seq) + 1 - i]]

DisjointDocs ==
    \A d, e \in 1..Len(docs) :
        d # e => \A k \in {it[1] : it \in DictItems(Parsed(d))} :
                    ~DictHas(Parsed(e), k)

\* C6: merging the documents' mappings by dict.update in document order
\* gives the same mapping in either order when the documents' question sets
\* are disjoint, and a question that several documents hold ends with the
\* answer of the document merged last.
C6_MergeOrder ==
    pc \in {"loop", "done"} =>
        /\ DisjointDocs =>
              DictItems(all_qas) = DictItems(MergeAll(<<>>, Reversed(docs)))
        /\ \A d \in 1..Len(docs) : \A it \in DictItems(Parsed(d)) :
              (\A e \in 1..Len(docs) : e > d => ~DictHas(Parsed(e), it[1]))
                  => DictGet(all_qas, it[1]) = it[2]

C6_Witness ==
    /\ pc = "loop"
    /\ Len(docs) = 2
    /\ \E k \in {it[1] : it \in DictItems(Parsed(1))} :
          /\ DictHas(Parsed(2), k)
          /\ DictGet(Parsed(1), k) # DictGet(Parsed(2), k)
          /\ DictGet(all_qas, k) = DictGet(Parsed(2), k)

(* ======================= the loop: C7, C8, C9, C10 ======================= *)
ExitWords == { <<"e","x","i","t">>, <<"q","u","i","t">> }

C7_Step ==
    /\ pc = "loop" =>
          /\ nread' = nread + 1
          /\ IF Lower(Strip(rawline')) \in ExitWords
             THEN pc' = "done" /\ nreplies' = nreplies /\ reply' = reply
             ELSE /\ pc' = "loop"
                  /\ nreplies' = nreplies + 1
                  /\ reply'.branch \in {"matched", "apology"}
    /\ pc = "done" => FALSE

\* C7: an input line that is "exit" or "quit" once trimmed and lower-cased
\* ends the loop, and nothing is read or answered after it; every other
\* line, the empty line and the query without a match included, gets
\* exactly one reply, and the loop goes on to the next line.
C7_ExitEndsLoopElseOneReply == [][C7_Step]_vars

C7_Witness ==
    /\ pc = "done"
    /\ nreplies = 2
    /\ rawline \notin ExitWords
    /\ reply.branch = "apology"

HasBacktick(s) == \E i \in 1..Len(s) : s[i] = Backtick

WithoutBackticks(s) == SelectSeq(s, LAMBDA c : c # Backtick)

\* C8: the reply is the apology when the matcher returns None, the "no
\* information yet" message when the matched question's answer is empty or
\* absent, and otherwise the preamble and then the stripped answer without
\* any backtick.
C8_ReplyText ==
    (pc = "loop" /\ nread > 0) =>
        LET answer == DictGet(all_qas, best_q)
        IN  IF best_q = None THEN reply.text = <<ApologyMsg>>
            ELSE IF answer = None \/ answer = <<>> THEN reply.text = <<NoInfoMsg>>
            ELSE /\ reply.text = <<Preamble>> \o WithoutBackticks(Strip(answer))
                 /\ ~HasBacktick(reply.text)

C8_Witness ==
    /\ pc = "loop" /\ nread > 0
    /\ best_q # None
    /\ HasBacktick(DictGet(all_qas, best_q))
    /\ Len(reply.text) > 1

\* C9: once the corpus is built, no query and no exit changes the merged
\* mapping or the questions list.
C9_CorpusReadOnly ==
    [][pc = "loop" => (all_qas' = all_qas /\ questions' = questions)]_vars

C9_Witness ==
    /\ pc = "done"
    /\ nreplies = 2
    /\ reply.branch = "matched"
    /\ Len(all_qas) = 2

DocLines(d) == Split(docs[d], "\n")

====
